---- MODULE Spec2Model ----
(***************************************************************************)
(* generate_trash of trash_placement.py as a state machine.                *)
(*                                                                         *)
(* Python floats are modelled as exact rationals <<num, den>>, den > 0, in *)
(* lowest terms.  The two global generators the function draws from, the   *)
(* `random` module and numpy's np.random, are the variable rng: when the   *)
(* caller never seeded them their draws are arbitrary, when the caller     *)
(* seeded them each draw is a function of the generator's state.           *)
(***************************************************************************)
EXTENDS Integers, Sequences, FiniteSets, TLC

\* number of points of [0, 1) a position draw takes (k / PosSteps)
PosSteps == 2
\* number of points of [0, 1) a size draw takes (k / SizeSteps)
SizeSteps == 2

(***************************************************************************)
(* Exact rational arithmetic                                               *)
(***************************************************************************)
Abs(x) == IF x < 0 THEN -x ELSE x

RECURSIVE GCD(_, _)
GCD(a, b) == IF b = 0 THEN a ELSE GCD(b, a % b)

Q(n, d) ==
    LET s == IF d < 0 THEN -1 ELSE 1
        g == GCD(Abs(n), Abs(d))
    IN  <<(s * n) \div g, (s * d) \div g>>

QInt(n) == <<n, 1>>

QNeg(a) == <<-a[1], a[2]>>

QMul(a, b) ==
    LET g1 == GCD(Abs(a[1]), b[2])
        g2 == GCD(Abs(b[1]), a[2])
    IN  Q((a[1] \div g1) * (b[1] \div g2), (a[2] \div g2) * (b[2] \div g1))

QDiv(a, b) == QMul(a, Q(b[2], b[1]))

QAdd(a, b) ==
    LET l == (a[2] \div GCD(a[2], b[2])) * b[2]
    IN  Q(a[1] * (l \div a[2]) + b[1] * (l \div b[2]), l)

QSub(a, b) == QAdd(a, QNeg(b))

QLess(a, b) == QSub(a, b)[1] < 0

QLeq(a, b) == QSub(a, b)[1] <= 0

QCube(a) == QMul(a, QMul(a, a))

\* math.floor and math.ceil
Floor(a) == a[1] \div a[2]

Ceil(a) == -((-a[1]) \div a[2])

RECURSIVE QSum(_)
QSum(s) == IF s = <<>> THEN QInt(0) ELSE QAdd(Head(s), QSum(Tail(s)))

(***************************************************************************)
(* The tables                                                              *)
(***************************************************************************)
SizeClass == <<"MICRO", "MESO", "MACRO", "MEGA">>

PlasticType == <<"H", "N", "P", "F">>

\* centimeters: (min, max)
size_ranges ==
    [MICRO |-> <<Q(5, 100), Q(5, 10)>>,
     MESO  |-> <<Q(5, 10), QInt(5)>>,
     MACRO |-> <<QInt(5), QInt(50)>>,
     MEGA  |-> <<QInt(50), QInt(200)>>]

\* fraction of pieces of each material; some (size class, type) pairs have no entry
MicroMaterials ==
    [H |-> << <<"PE", Q(95, 100)>>, <<"PP", Q(5, 100)>> >>,
     N |-> << <<"PE", Q(50, 100)>>, <<"PP", Q(50, 100)>> >>,
     P |-> << <<"PE", QInt(1)>> >>,
     F |-> << <<"PE", Q(30, 100)>>, <<"PS", Q(60, 100)>> >>]

MesoMaterials ==
    [H |-> << <<"PE", Q(75, 100)>>, <<"PP", Q(25, 100)>> >>,
     N |-> << <<"PE", Q(70, 100)>>, <<"PP", Q(30, 100)>> >>,
     P |-> << <<"PE", QInt(1)>> >>,
     F |-> << <<"PE", Q(40, 100)>>, <<"PP", Q(5, 100)>>,
              <<"PS", Q(40, 100)>>, <<"PVC", Q(10, 100)>> >>]

MacroMaterials ==
    [H |-> << <<"PE", Q(55, 100)>>, <<"PP", Q(45, 100)>> >>,
     N |-> << <<"PE", Q(65, 100)>>, <<"PP", Q(35, 100)>> >>,
     F |-> << <<"PE", Q(50, 100)>>, <<"PP", Q(5, 100)>>,
              <<"PS", Q(15, 100)>>, <<"PVC", Q(10, 100)>> >>]

\* faulty variant: the N entry of MEGA left out of the table
MegaMaterialsWithoutN ==
    [H |-> << <<"PE", Q(60, 100)>>, <<"PP", Q(40, 100)>> >>]

MegaMaterials ==
    [H |-> << <<"PE", Q(60, 100)>>, <<"PP", Q(40, 100)>> >>,
     N |-> << <<"PE", Q(80, 100)>>, <<"PP", Q(10, 100)>> >>]

plastic_materials ==
    [MICRO |-> MicroMaterials, MESO |-> MesoMaterials,
     MACRO |-> MacroMaterials, MEGA |-> MegaMaterials]

\* kg/m^3
material_densities ==
    [PE |-> QInt(920), PP |-> Q(9005, 10), PS |-> QInt(1005), PVC |-> QInt(1005)]

\* mass and number concentration: (kg/km^2, #/km^2)
mean_plastic_concentration ==
    [MICRO |-> [H |-> <<Q(233, 100), QInt(643930)>>,
                N |-> <<Q(41, 1000), QInt(19873)>>,
                P |-> <<Q(13, 100), QInt(14362)>>,
                F |-> <<Q(1, 1000), QInt(216)>>],
     MESO  |-> [H |-> <<Q(368, 100), QInt(20993)>>,
                N |-> <<Q(23, 100), QInt(803)>>,
                P |-> <<Q(3, 10000), Q(36, 10)>>,
                F |-> <<Q(3, 1000), QInt(12)>>],
     MACRO |-> [H |-> <<Q(1553, 100), QInt(640)>>,
                N |-> <<Q(127, 100), QInt(49)>>,
                P |-> <<QInt(0), QInt(0)>>,
                F |-> <<Q(21, 1000), Q(7, 10)>>],
     MEGA  |-> [H |-> <<Q(352, 100), Q(3, 10)>>,
                N |-> <<Q(4282, 100), Q(33, 10)>>,
                P |-> <<QInt(0), QInt(0)>>,
                F |-> <<QInt(0), QInt(0)>>]]

total_mean_plastic_concentration == <<Q(6958, 100), QInt(700), QInt(886)>>

\* make total concentration = 100 kg/km^2
default_mean_scale == QDiv(QInt(100), total_mean_plastic_concentration[1])

\* the dataclass Trash
Trash(x, y, size, mass, density, size_class, plastic_type) ==
    [x |-> x, y |-> y, size |-> size, mass |-> mass, density |-> density,
     size_class |-> size_class, plastic_type |-> plastic_type]


(***************************************************************************)
(* The arguments of generate_trash and the state of one call               *)
(***************************************************************************)
VARIABLES
    args,                   \* W, H, boat_pos, boat_box, centered, mean_scale,
                            \* relevant_size_classes, use_example
    pc,                     \* "idle", "entry", "bucket", "piece", "reject", "done", "raised"
    err,                    \* the exception raised, "" when none
    ci, ti,                 \* position of the two for loops: size_class, plastic_type
    total_mass, n_pieces, avg_mass_per_piece, total_mass_proportion,
    i,                      \* for i in range(n_pieces)
    pos, material,
    pieces,
    rng,                    \* the global generators of `random` and np.random
    callsLeft,              \* calls the caller still makes, with the same arguments
    returned,               \* what each finished call gave the caller
    rounded,                \* history: the buckets that were rounded, with their count
    writes                  \* history: how often each piece's mass was assigned

vars == <<args, pc, err, ci, ti, total_mass, n_pieces, avg_mass_per_piece,
          total_mass_proportion, i, pos, material, pieces, rng, callsLeft,
          returned, rounded, writes>>

locals == <<ci, ti, total_mass, n_pieces, avg_mass_per_piece,
            total_mass_proportion, i, pos, material>>

\* W and H in meters: a square kilometer, nothing, and negative extents
Widths == {-1000, 0, 1000}

Heights == {-50, 0, 1000}

\* mean_scale and relevant_size_classes, chosen so that the counts stay small:
\* over a square kilometer MEGA/H gets 0.1 and MEGA/N 1.1 pieces at scale 1/3,
\* and MEGA/H gets exactly 1 piece at scale 10/3
Workloads ==
    { [mean_scale |-> Q(1, 3), relevant_size_classes |-> <<"MEGA">>],
      [mean_scale |-> Q(10, 3), relevant_size_classes |-> <<"MEGA">>] }

\* the boat: none (the default), over part of the region, over the whole region
Boats ==
    { [boat_pos |-> <<0, 0>>, boat_box |-> <<0, 0>>],
      [boat_pos |-> <<0, 0>>, boat_box |-> <<1000, 1000>>],
      [boat_pos |-> <<0, 0>>, boat_box |-> <<4000, 4000>>] }

\* centered and the boat; without a boat centered only shifts the positions,
\* and is taken FALSE, its default
Frames ==
    { [centered |-> c, boat_pos |-> b.boat_pos, boat_box |-> b.boat_box] :
      c \in BOOLEAN, b \in Boats }
    \ { [centered |-> TRUE, boat_pos |-> <<0, 0>>, boat_box |-> <<0, 0>>] }

Inputs ==
    { [W |-> w, H |-> h, boat_pos |-> f.boat_pos, boat_box |-> f.boat_box,
       centered |-> f.centered, mean_scale |-> l.mean_scale,
       relevant_size_classes |-> l.relevant_size_classes, use_example |-> e] :
      w \in Widths, h \in Heights, f \in Frames, l \in Workloads, e \in BOOLEAN }

(***************************************************************************)
(* The expressions of generate_trash                                       *)
(***************************************************************************)
\* (W/1000)*(H/1000)
AreaKm2(a) == QMul(Q(a.W, 1000), Q(a.H, 1000))

TotalMass(a, size_class, plastic_type) ==
    QMul(QMul(a.mean_scale, mean_plastic_concentration[size_class][plastic_type][1]),
         AreaKm2(a))

NPieces(a, size_class, plastic_type) ==
    QMul(QMul(a.mean_scale, mean_plastic_concentration[size_class][plastic_type][2]),
         AreaKm2(a))

\* the two arguments of np.random.choice in the rounding step
RoundingValues(n) == <<Floor(n), Ceil(n)>>

RoundingProbabilities(n) ==
    <<QSub(QInt(1), QSub(n, QInt(Floor(n)))), QSub(QInt(1), QSub(QInt(Ceil(n)), n))>>

PosRange(a) ==
    IF a.centered
    THEN << <<Q(-a.W, 2), Q(a.W, 2)>>, <<Q(-a.H, 2), Q(a.H, 2)>> >>
    ELSE << <<QInt(0), QInt(a.W)>>, <<QInt(0), QInt(a.H)>> >>

\* random.uniform(a, b) is a + (b - a) * random(), random() in [0, 1)
Uniform(a, b, u) == QAdd(a, QMul(QSub(b, a), u))

\* faulty variant: boat_pos taken for the corner of the boat instead of its center
InBoatFromCorner(a, p) ==
    /\ QLess(QInt(a.boat_pos[1]), p[1])
    /\ QLess(p[1], QAdd(QInt(a.boat_pos[1]), QInt(a.boat_box[1])))
    /\ QLess(QInt(a.boat_pos[2]), p[2])
    /\ QLess(p[2], QAdd(QInt(a.boat_pos[2]), QInt(a.boat_box[2])))

\* the condition of the while loop: the position intersects the boat
InBoat(a, p) ==
    /\ QLess(QSub(QInt(a.boat_pos[1]), Q(a.boat_box[1], 2)), p[1])
    /\ QLess(p[1], QAdd(QInt(a.boat_pos[1]), Q(a.boat_box[1], 2)))
    /\ QLess(QSub(QInt(a.boat_pos[2]), Q(a.boat_box[2], 2)), p[2])
    /\ QLess(p[2], QAdd(QInt(a.boat_pos[2]), Q(a.boat_box[2], 2)))

\* faulty variant: the size left in centimeters
SampleSizeInCm(size_class, u) ==
    Uniform(size_ranges[size_class][1], size_ranges[size_class][2], u)

\* 10 ** random.uniform(log10(min), log10(max)), then size /= 100.  10 ** v runs
\* through [min, max) as v runs through [log10(min), log10(max)); its values are
\* irrational, so the model takes the point of [min, max) at the same fraction u
\* of the way, which is min at u = 0 and below max for every u < 1.
SampleSize(size_class, u) ==
    QDiv(Uniform(size_ranges[size_class][1], size_ranges[size_class][2], u), QInt(100))

HasMaterials(size_class, plastic_type) ==
    plastic_type \in DOMAIN plastic_materials[size_class]

PossibleMaterials(size_class, plastic_type) ==
    [k \in DOMAIN plastic_materials[size_class][plastic_type] |->
        plastic_materials[size_class][plastic_type][k][1]]

\* material_probabilities / np.sum(material_probabilities)
MaterialProbabilities(size_class, plastic_type) ==
    LET m == plastic_materials[size_class][plastic_type]
        w == [k \in DOMAIN m |-> m[k][2]]
    IN  [k \in DOMAIN m |-> QDiv(w[k], QSum(w))]

\* density * size**3
Weight(piece) == QMul(piece.density, QCube(piece.size))

(***************************************************************************)
(* The generators.  A seeded generator is a congruential one here: its     *)
(* next state and its next number of [0, 1) are functions of its state.    *)
(***************************************************************************)
RngNext(s) == (5 * s + 3) % 16

\* the generator's number of [0, 1), and the point k / steps at or below it
RngUnit(s) == Q(s, 16)

RngUnitAt(s, steps) == Q((s * steps) \div 16, steps)

Seeds == 0 .. 15

\* the points of [0, 1) a draw takes at the resolution steps
UnitPoints(steps) == { Q(k, steps) : k \in 0 .. steps - 1 }

\* the next n numbers random() may give
PyRandom(n, steps) ==
    IF rng.seeded
    THEN LET s1 == RngNext(rng.py)
         IN  { [k \in 1 .. n |-> RngUnitAt(IF k = 1 THEN s1 ELSE RngNext(s1), steps)] }
    ELSE [1 .. n -> UnitPoints(steps)]

PyAdvance(n) ==
    IF rng.seeded
    THEN [rng EXCEPT !.py = IF n = 1 THEN RngNext(@) ELSE RngNext(RngNext(@))]
    ELSE rng

RECURSIVE Cdf(_, _)
Cdf(p, k) == IF k = 0 THEN QInt(0) ELSE QAdd(p[k], Cdf(p, k - 1))

\* np.random.choice(values, p = p) raises ValueError unless p sums to 1
ChoiceAccepts(p) == Cdf(p, Len(p)) = QInt(1)

\* the indices np.random.choice may give: cdf.searchsorted(uniform, side = 'right')
NpChoice(p) ==
    IF rng.seeded
    THEN LET u == RngUnit(RngNext(rng.np))
         IN  { 1 + Cardinality({ k \in 1 .. Len(p) - 1 : QLeq(Cdf(p, k), u) }) }
    ELSE { k \in 1 .. Len(p) : QLess(QInt(0), p[k]) }

NpAdvance == IF rng.seeded THEN [rng EXCEPT !.np = RngNext(@)] ELSE rng


(***************************************************************************)
(* The example branch                                                      *)
(***************************************************************************)
\* the literal pieces: x, y, size; all MEGA, N
ExampleLayout ==
    << <<100 + 0, 16, Q(75, 100)>>, <<100 + 10, 100, Q(75, 100)>>,
       <<100 - 10, 100, Q(75, 100)>>, <<100 + 15, 130, QInt(1)>>,
       <<100 - 12, 170, Q(75, 100)>>, <<100 + 15, 210, Q(250, 100)>>,
       <<100 + 0, 240, Q(50, 100)>> >>

\* avg_density[size_class][plastic_type]
AvgDensity(size_class, plastic_type) ==
    LET m == plastic_materials[size_class][plastic_type]
    IN  QSum([k \in DOMAIN m |-> QMul(material_densities[m[k][1]], m[k][2])])

\* total_vol = avg_vol_per_piece * n_pieces_for_type without its factor
\* 1 / (max_log_size - min_log_size), which is irrational:
\* ((10**3)**max_log_size - (10**3)**min_log_size) / log10(10**3) is (max^3 - min^3) / 3
ExampleVolTimesLog(a, size_class, plastic_type) ==
    LET lo == QDiv(size_ranges[size_class][1], QInt(100))
        hi == QDiv(size_ranges[size_class][2], QInt(100))
    IN  QMul(QDiv(QSub(QCube(hi), QCube(lo)), QInt(3)),
             NPieces(a, size_class, plastic_type))

\* piece.mass = (piece_vol / total_vol) * total_mass_for_type, kept as the
\* rational coef with mass = coef * (log10(max) - log10(min)) of the size class
ExampleMass(a, size, size_class, plastic_type) ==
    [coef |-> QMul(QDiv(QCube(size), ExampleVolTimesLog(a, size_class, plastic_type)),
                   TotalMass(a, size_class, plastic_type)),
     times_log10_of |-> QDiv(size_ranges[size_class][2], size_ranges[size_class][1])]

ExamplePieces(a) ==
    [k \in DOMAIN ExampleLayout |->
        Trash(QInt(ExampleLayout[k][1]), QInt(ExampleLayout[k][2]), ExampleLayout[k][3],
              ExampleMass(a, ExampleLayout[k][3], "MEGA", "N"),
              AvgDensity("MEGA", "N"), "MEGA", "N")]

(***************************************************************************)
(* The steps of a call                                                     *)
(***************************************************************************)
size_class == args.relevant_size_classes[ci]

plastic_type == PlasticType[ti]

\* faulty variant: the second loop runs over range(n_pieces), the head of the list
NormalizeHeadOfList(len, n) == 1 .. n

\* range(len(pieces) - n_pieces, len(pieces)), as indices from 1
NormalizeRange(len, n) == (len - n + 1) .. len

\* total_mass = avg_mass_per_piece * n_pieces, after rounding
AdjustedTotalMass(avg, n) == QMul(avg, n)

Raise(e) ==
    /\ pc' = "raised"
    /\ err' = e
    /\ returned' = Append(returned, [ok |-> FALSE, pieces |-> <<>>])

\* the next (size_class, plastic_type) of the two for loops
NextBucket ==
    /\ ci' = IF ti < Len(PlasticType) THEN ci ELSE ci + 1
    /\ ti' = IF ti < Len(PlasticType) THEN ti + 1 ELSE 1

Call ==
    /\ pc \in {"idle", "done", "raised"}
    /\ callsLeft > 0
    /\ callsLeft' = callsLeft - 1
    /\ pc' = "entry"
    /\ err' = ""
    /\ ci' = 1 /\ ti' = 1
    /\ total_mass' = QInt(0) /\ n_pieces' = QInt(0) /\ avg_mass_per_piece' = QInt(0)
    /\ total_mass_proportion' = QInt(0)
    /\ i' = 0
    /\ pos' = <<QInt(0), QInt(0)>>
    /\ material' = ""
    /\ pieces' = <<>>
    /\ rounded' = <<>>
    /\ writes' = <<>>
    /\ UNCHANGED <<args, rng, returned>>

\* if use_example: ... return pieces
Example ==
    /\ pc = "entry"
    /\ args.use_example
    /\ IF ExampleVolTimesLog(args, "MEGA", "N")[1] = 0
       THEN /\ Raise("ZeroDivisionError")
            /\ UNCHANGED <<pieces, writes>>
       ELSE IF ~HasMaterials("MEGA", "N")
       THEN /\ Raise("KeyError")
            /\ UNCHANGED <<pieces, writes>>
       ELSE /\ pieces' = ExamplePieces(args)
            /\ writes' = [k \in DOMAIN ExampleLayout |-> 1]
            /\ pc' = "done"
            /\ err' = ""
            /\ returned' = Append(returned, [ok |-> TRUE, pieces |-> pieces'])
    /\ UNCHANGED <<args, locals, rng, callsLeft, rounded>>

\* pieces = [], and the for loops begin
BeginSampling ==
    /\ pc = "entry"
    /\ ~args.use_example
    /\ pc' = "bucket"
    /\ pieces' = <<>>
    /\ UNCHANGED <<args, err, locals, rng, callsLeft, returned, rounded, writes>>

\* a bucket whose n_pieces is not > 0
SkipBucket ==
    /\ pc = "bucket"
    /\ ci <= Len(args.relevant_size_classes)
    /\ ~QLess(QInt(0), NPieces(args, size_class, plastic_type))
    /\ total_mass' = TotalMass(args, size_class, plastic_type)
    /\ n_pieces' = NPieces(args, size_class, plastic_type)
    /\ NextBucket
    /\ UNCHANGED <<args, pc, err, avg_mass_per_piece, total_mass_proportion, i, pos,
                   material, pieces, rng, callsLeft, returned, rounded, writes>>

\* n_pieces > 0: round it with np.random.choice and adjust total_mass
RoundCount ==
    /\ pc = "bucket"
    /\ ci <= Len(args.relevant_size_classes)
    /\ LET n == NPieces(args, size_class, plastic_type)
           avg == QDiv(TotalMass(args, size_class, plastic_type), n)
       IN  /\ QLess(QInt(0), n)
           /\ ChoiceAccepts(RoundingProbabilities(n))
           /\ \E k \in NpChoice(RoundingProbabilities(n)) :
                /\ n_pieces' = QInt(RoundingValues(n)[k])
                /\ avg_mass_per_piece' = avg
                /\ total_mass' = AdjustedTotalMass(avg, n_pieces')
                /\ rounded' = Append(rounded,
                      [size_class |-> size_class, plastic_type |-> plastic_type,
                       n |-> RoundingValues(n)[k]])
    /\ total_mass_proportion' = QInt(0)
    /\ i' = 0
    /\ pc' = "piece"
    /\ rng' = NpAdvance
    /\ UNCHANGED <<args, err, ci, ti, pos, material, pieces, callsLeft, returned, writes>>

\* np.random.choice refuses probabilities that do not sum to 1
ChoiceRaises ==
    /\ pc = "bucket"
    /\ ci <= Len(args.relevant_size_classes)
    /\ LET n == NPieces(args, size_class, plastic_type)
       IN  /\ QLess(QInt(0), n)
           /\ ~ChoiceAccepts(RoundingProbabilities(n))
           /\ total_mass' = TotalMass(args, size_class, plastic_type)
           /\ n_pieces' = n
           /\ avg_mass_per_piece' = QDiv(TotalMass(args, size_class, plastic_type), n)
    /\ Raise("ValueError")
    /\ UNCHANGED <<args, ci, ti, total_mass_proportion, i, pos, material, pieces, rng,
                   callsLeft, rounded, writes>>

\* pos = (random.uniform(*pos_range[0]), random.uniform(*pos_range[1]))
DrawnPos(d) ==
    <<Uniform(PosRange(args)[1][1], PosRange(args)[1][2], d[1]),
      Uniform(PosRange(args)[2][1], PosRange(args)[2][2], d[2])>>

DrawPos ==
    /\ pc = "piece"
    /\ i < n_pieces[1]
    /\ \E d \in PyRandom(2, PosSteps) : pos' = DrawnPos(d)
    /\ rng' = PyAdvance(2)
    /\ pc' = "reject"
    /\ UNCHANGED <<args, err, ci, ti, total_mass, n_pieces, avg_mass_per_piece,
                   total_mass_proportion, i, material, pieces, callsLeft, returned,
                   rounded, writes>>

\* the body of the while loop: the position intersects the boat, draw another
Redraw(d) ==
    /\ pc = "reject"
    /\ InBoat(args, pos)
    /\ d \in PyRandom(2, PosSteps)
    /\ pos' = DrawnPos(d)
    /\ rng' = PyAdvance(2)
    /\ UNCHANGED <<args, pc, err, ci, ti, total_mass, n_pieces, avg_mass_per_piece,
                   total_mass_proportion, i, material, pieces, callsLeft, returned,
                   rounded, writes>>

\* the position is accepted: size, material, density, pieces.append
AppendPiece ==
    /\ pc = "reject"
    /\ ~InBoat(args, pos)
    /\ IF ~HasMaterials(size_class, plastic_type)
       THEN /\ Raise("KeyError")
            /\ UNCHANGED <<rng, material, pieces, total_mass_proportion, i, writes>>
       ELSE /\ \E u \in PyRandom(1, SizeSteps) :
               \E k \in NpChoice(MaterialProbabilities(size_class, plastic_type)) :
                 LET size == SampleSize(size_class, u[1])
                     mat == PossibleMaterials(size_class, plastic_type)[k]
                     piece == Trash(pos[1], pos[2], size, QInt(0),
                                    material_densities[mat], size_class, plastic_type)
                 IN  /\ material' = mat
                     /\ pieces' = Append(pieces, piece)
                     /\ total_mass_proportion' =
                            QAdd(total_mass_proportion, Weight(piece))
            /\ rng' = [PyAdvance(1) EXCEPT !.np = NpAdvance.np]
            /\ writes' = Append(writes, 0)
            /\ i' = i + 1
            /\ pc' = "piece"
            /\ UNCHANGED <<err, returned>>
    /\ UNCHANGED <<args, ci, ti, total_mass, n_pieces, avg_mass_per_piece, pos,
                   callsLeft, rounded>>

\* faulty variant: the density left out of the numerator
PieceMassWithoutDensity(piece) ==
    QDiv(QMul(total_mass, QCube(piece.size)), total_mass_proportion)

\* total_mass * (density * size**3) / total_mass_proportion
PieceMass(piece) ==
    QDiv(QMul(total_mass, Weight(piece)), total_mass_proportion)

\* the second loop of the bucket: the masses of its pieces
Normalize ==
    /\ pc = "piece"
    /\ i >= n_pieces[1]
    /\ LET r == NormalizeRange(Len(pieces), n_pieces[1])
       IN  /\ pieces' = [k \in DOMAIN pieces |->
                 IF k \in r
                 THEN [pieces[k] EXCEPT !.mass = PieceMass(pieces[k])]
                 ELSE pieces[k]]
           /\ writes' = [k \in DOMAIN writes |-> IF k \in r THEN writes[k] + 1 ELSE writes[k]]
    /\ NextBucket
    /\ pc' = "bucket"
    /\ UNCHANGED <<args, err, total_mass, n_pieces, avg_mass_per_piece,
                   total_mass_proportion, i, pos, material, rng, callsLeft, returned,
                   rounded>>

\* return pieces
Return ==
    /\ pc = "bucket"
    /\ ci > Len(args.relevant_size_classes)
    /\ pc' = "done"
    /\ returned' = Append(returned, [ok |-> TRUE, pieces |-> pieces])
    /\ UNCHANGED <<args, err, locals, pieces, rng, callsLeft, rounded, writes>>

(***************************************************************************)
(* The specifications                                                      *)
(***************************************************************************)
Start ==
    /\ args \in Inputs
    /\ pc = "idle"
    /\ err = ""
    /\ ci = 1 /\ ti = 1
    /\ total_mass = QInt(0) /\ n_pieces = QInt(0) /\ avg_mass_per_piece = QInt(0)
    /\ total_mass_proportion = QInt(0)
    /\ i = 0
    /\ pos = <<QInt(0), QInt(0)>>
    /\ material = ""
    /\ pieces = <<>>
    /\ returned = <<>>
    /\ rounded = <<>>
    /\ writes = <<>>

\* one call, the generators never seeded
Init ==
    /\ Start
    /\ rng = [seeded |-> FALSE, py |-> 0, np |-> 0]
    /\ callsLeft = 1

\* random.seed(s); np.random.seed(s), then two calls with the same arguments
SeedInit ==
    /\ Start
    /\ \E s \in Seeds : rng = [seeded |-> TRUE, py |-> s, np |-> s]
    /\ callsLeft = 2

Next ==
    \/ Call
    \/ Example
    \/ BeginSampling
    \/ SkipBucket
    \/ RoundCount
    \/ ChoiceRaises
    \/ DrawPos
    \/ \E d \in PyRandom(2, PosSteps) : Redraw(d)
    \/ AppendPiece
    \/ Normalize
    \/ Return

Spec == Init /\ [][Next]_vars

SeedSpec == SeedInit /\ [][Next]_vars


(***************************************************************************)
(* The properties                                                          *)
(***************************************************************************)
Buckets == { <<args.relevant_size_classes[k], PlasticType[t]>> :
             k \in DOMAIN args.relevant_size_classes, t \in DOMAIN PlasticType }

\* the pieces of a bucket, in the order of the list
InBucket(list, b) ==
    SelectSeq(list, LAMBDA p : p.size_class = b[1] /\ p.plastic_type = b[2])

SumOfMasses(list) == QSum([k \in DOMAIN list |-> list[k].mass])

Sampled == ~args.use_example

\* C1: in a list the sampling path returns, the masses of the pieces of every
\* bucket that was rounded add up to avg_mass_per_piece * n, n the rounded count
\* of the bucket (0 included), avg_mass_per_piece the quotient of its two targets.
C1_BucketMassConserved ==
    (Sampled /\ pc = "done") =>
        \A k \in DOMAIN rounded :
            LET b == <<rounded[k].size_class, rounded[k].plastic_type>>
                avg == QDiv(TotalMass(args, b[1], b[2]), NPieces(args, b[1], b[2]))
            IN  SumOfMasses(InBucket(pieces, b)) = QMul(avg, QInt(rounded[k].n))

\* a returned list with an empty bucket and a bucket of two pieces of different
\* size and density
C1_Witness ==
    /\ Sampled /\ pc = "done"
    /\ \E k \in DOMAIN rounded : rounded[k].n = 0
    /\ \E k \in DOMAIN rounded :
        LET l == InBucket(pieces, <<rounded[k].size_class, rounded[k].plastic_type>>)
        IN  /\ rounded[k].n = 2
            /\ Len(l) = 2
            /\ l[1].size # l[2].size
            /\ l[1].density # l[2].density

\* C2: the list generate_trash returns holds floor(nTarget) or ceil(nTarget)
\* pieces of every bucket, for every width, height and scale.
C2_CountIsFloorOrCeil ==
    (Sampled /\ pc = "done") =>
        \A b \in Buckets :
            Len(InBucket(pieces, b)) \in
                {Floor(NPieces(args, b[1], b[2])), Ceil(NPieces(args, b[1], b[2]))}

HasArea(box) == box[1] # 0 /\ box[2] # 0

\* twice the distance of a coordinate from the center of the boat, against the
\* full extent of the boat on that axis
StrictlyInsideBoat(a, p) ==
    /\ QLess(QMul(QInt(2), QSub(p.x, QInt(a.boat_pos[1]))), QInt(Abs(a.boat_box[1])))
    /\ QLess(QInt(-Abs(a.boat_box[1])), QMul(QInt(2), QSub(p.x, QInt(a.boat_pos[1]))))
    /\ QLess(QMul(QInt(2), QSub(p.y, QInt(a.boat_pos[2]))), QInt(Abs(a.boat_box[2])))
    /\ QLess(QInt(-Abs(a.boat_box[2])), QMul(QInt(2), QSub(p.y, QInt(a.boat_pos[2]))))

OnOrInsideBoat(a, p) ==
    /\ QLeq(QMul(QInt(2), QSub(p.x, QInt(a.boat_pos[1]))), QInt(Abs(a.boat_box[1])))
    /\ QLeq(QInt(-Abs(a.boat_box[1])), QMul(QInt(2), QSub(p.x, QInt(a.boat_pos[1]))))
    /\ QLeq(QMul(QInt(2), QSub(p.y, QInt(a.boat_pos[2]))), QInt(Abs(a.boat_box[2])))
    /\ QLeq(QInt(-Abs(a.boat_box[2])), QMul(QInt(2), QSub(p.y, QInt(a.boat_pos[2]))))

\* C3, as claimed: every piece of a returned list, of either path, lies strictly
\* outside a boat rectangle of nonzero area.
C3_StrictlyOutsideBoat ==
    (pc = "done" /\ HasArea(args.boat_box)) =>
        \A k \in DOMAIN pieces : ~OnOrInsideBoat(args, pieces[k])

\* C3, amended: no piece of a list returned by the sampling path lies strictly
\* inside a boat rectangle of nonzero area (it may lie on its edge).
C3_SampledNotInsideBoat ==
    (Sampled /\ pc = "done" /\ HasArea(args.boat_box)) =>
        \A k \in DOMAIN pieces : ~StrictlyInsideBoat(args, pieces[k])

\* a sampled list with a boat that covers part of the region, one piece on the
\* edge of the boat
C3_Witness ==
    /\ Sampled /\ pc = "done" /\ HasArea(args.boat_box)
    /\ \E d \in [1 .. 2 -> UnitPoints(PosSteps)] : InBoat(args, DrawnPos(d))
    /\ \E k \in DOMAIN pieces : OnOrInsideBoat(args, pieces[k])

SizeInClassRange(p) ==
    /\ QLeq(QDiv(size_ranges[p.size_class][1], QInt(100)), p.size)
    /\ QLess(p.size, QDiv(size_ranges[p.size_class][2], QInt(100)))

\* C4, as claimed: the size of every piece of a returned list, of either path,
\* is in [min/100, max/100) of its size class.
C4_SizeInRange ==
    pc = "done" => \A k \in DOMAIN pieces : SizeInClassRange(pieces[k])

\* C4, amended: the size of every piece of a list returned by the sampling path
\* is in [min/100, max/100) of its size class, from the moment it is appended.
C4_SampledSizeInRange ==
    Sampled =>
        /\ pc = "done" => \A k \in DOMAIN pieces : SizeInClassRange(pieces[k])
        /\ pieces # <<>> => SizeInClassRange(pieces[Len(pieces)])

\* a sampled list with a piece of the least size of its class and a larger one
C4_Witness ==
    /\ Sampled /\ pc = "done"
    /\ \E k \in DOMAIN pieces :
        pieces[k].size = QDiv(size_ranges[pieces[k].size_class][1], QInt(100))
    /\ \E k \in DOMAIN pieces :
        QLess(QDiv(size_ranges[pieces[k].size_class][1], QInt(100)), pieces[k].size)

\* C5: the call terminates; the while loop that rejects positions is never in a
\* state where no position random.uniform can give ends it.
C5_RejectionLoopCanEnd ==
    pc = "reject" =>
        \E d \in [1 .. 2 -> UnitPoints(PosSteps)] : ~InBoat(args, DrawnPos(d))

\* C6: with W <= 0 or H <= 0 the call raises before any draw and never returns
\* a list.
C6_NonPositiveExtentRaises ==
    (args.W <= 0 \/ args.H <= 0) => pc \in {"idle", "entry", "raised"}

\* C7: two calls with the same arguments, the generators seeded once before the
\* first, return the same list: the earlier call does not change the later.
C7_SameSeedSameOutput ==
    Len(returned) = 2 => returned[1] = returned[2]

MaterialsOf(sc, pt) ==
    { plastic_materials[sc][pt][k][1] : k \in DOMAIN plastic_materials[sc][pt] }

\* C8: the material drawn for a piece is one of the weight table of its
\* (size_class, plastic_type) and its density is that material's; every bucket
\* the loops come to with a positive count target has a table entry, and no
\* lookup of a missing entry is ever made (no KeyError).
C8_MaterialFromTable ==
    /\ err # "KeyError"
    /\ (pc = "bucket" /\ ci <= Len(args.relevant_size_classes)
          /\ QLess(QInt(0), NPieces(args, size_class, plastic_type))) =>
        plastic_type \in DOMAIN plastic_materials[size_class]
    /\ Sampled =>
        /\ pc = "done" => \A k \in DOMAIN pieces :
              /\ pieces[k].plastic_type \in DOMAIN plastic_materials[pieces[k].size_class]
              /\ \E m \in MaterialsOf(pieces[k].size_class, pieces[k].plastic_type) :
                    pieces[k].density = material_densities[m]
        /\ (pieces # <<>> /\ material # "") =>
              LET last == pieces[Len(pieces)]
              IN  /\ material \in MaterialsOf(last.size_class, last.plastic_type)
                  /\ last.density = material_densities[material]

\* a sampled list whose pieces were drawn from both materials of a table, its
\* size class having types without a table entry
C8_Witness ==
    /\ Sampled /\ pc = "done"
    /\ "P" \notin DOMAIN plastic_materials[args.relevant_size_classes[1]]
    /\ \E j, k \in DOMAIN pieces :
        /\ pieces[j].plastic_type = pieces[k].plastic_type
        /\ pieces[j].density = material_densities["PE"]
        /\ pieces[k].density = material_densities["PP"]

\* C9: whenever a bucket with n_pieces > 0 is rounded, the weights given to
\* np.random.choice are (1 - frac, frac), which sum to 1, and the choice does
\* not fail, also when n_pieces is a whole number.
C9_RoundingWeights ==
    /\ err # "ValueError"
    /\ (pc = "bucket" /\ ci <= Len(args.relevant_size_classes)
          /\ QLess(QInt(0), NPieces(args, size_class, plastic_type))) =>
        LET n == NPieces(args, size_class, plastic_type)
            frac == QSub(n, QInt(Floor(n)))
            p == RoundingProbabilities(n)
        IN  /\ p = <<QSub(QInt(1), frac), frac>>
            /\ QAdd(p[1], p[2]) = QInt(1)

\* C10: on the sampling path the mass of a piece is assigned exactly once, by
\* the normalization of its own bucket: the pieces of the bucket being filled
\* have the unset mass 0, every piece of an earlier bucket was assigned once and
\* has a positive mass, and so has every piece of a returned list.
C10_MassWrittenOnce ==
    Sampled =>
        /\ Len(writes) = Len(pieces)
        /\ LET filling == IF pc \in {"piece", "reject"} THEN i ELSE 0
           IN  \A k \in DOMAIN pieces :
                 IF k <= Len(pieces) - filling
                 THEN writes[k] = 1 /\ pieces[k].mass[1] > 0
                 ELSE writes[k] = 0 /\ pieces[k].mass = QInt(0)

\* a returned list with pieces of two buckets, the second bucket of two pieces
C10_Witness ==
    /\ Sampled /\ pc = "done"
    /\ Len(rounded) = 2
    /\ rounded[1].n = 1 /\ rounded[2].n = 2
    /\ Len(pieces) = 3

====
